---- MODULE Spec2Model ----
(***************************************************************************)
(* Model of the OceanWatch report deletion service                         *)
(* (packages/backend-api/src/services/deletionService.js).                 *)
(*                                                                         *)
(* The service talks to PostgreSQL through node-postgres: every            *)
(* client.query is one statement on the call's own pooled connection.      *)
(* The database is modelled with the semantics the statements rely on:     *)
(*   - a transaction block opened by BEGIN collects the call's deletes     *)
(*     and inserts, and COMMIT applies them together (READ COMMITTED);     *)
(*   - a statement that throws inside the block puts the block in the      *)
(*     aborted state: every later statement throws until ROLLBACK, and a   *)
(*     COMMIT of an aborted block is executed as a ROLLBACK without        *)
(*     throwing;                                                           *)
(*   - a DELETE waits for the rows another open block has deleted, and     *)
(*     sees them gone if that block commits.                               *)
(* Any statement may throw (fault input of the action), and so may the     *)
(* access/unlink of an asset file.                                         *)
(*                                                                         *)
(* One caller uses the service directly; the other one comes in through    *)
(* the admin routes of controllers/reportController.js: the route          *)
(* DELETE /api/reports/:id, which validates the id, calls                  *)
(* validateReportExists and then deleteReportCompletely, and the bulk      *)
(* route, which validates the list and runs bulkDeleteReports.  Both       *)
(* routes stand behind authenticateToken and requireOfficial               *)
(* (middleware/auth.js).  A migration may create or drop an auxiliary      *)
(* table while the server runs (SchemaDrift).                              *)
(*                                                                         *)
(* Spec takes the loop over the related tables as one step of the call.    *)
(* LiveSpec takes it table by table, with the lock waits of its DELETEs,   *)
(* and states the fairness under which calls end.                          *)
(***************************************************************************)
EXTENDS Integers, Sequences, FiniteSets, TLC

\* ------------------------------------------------------------------ bounds
MaxReport == 2      \* report ids 1..MaxReport exist initially
MaxCalls == 2       \* deleteReportCompletely calls made in one behaviour
MaxAuxRows == 1     \* rows one auxiliary table holds for one report
MaxFaults == 1      \* statements or unlinks that fail on their own in one behaviour

Callers == {"c1", "c2"}
ReportIds == 1..MaxReport
\* ids a caller may pass: the existing ones and one that never existed
RequestIds == 1..(MaxReport + 1)
\* users.id of the official behind each caller (req.user.id)
AdminOf(c) == IF c = "c1" THEN 7 ELSE 8
\* callers that come in through the routes of the reports controller; the
\* others call the service directly, as the deletion test script does
HttpCallers == {"c2"}

\* the connections of the pool: one for each caller, so that pool.connect()
\* never has to wait
Connections == 1..Cardinality(Callers)

\* the allow-listed auxiliary tables, in the order the loop visits them
relatedTables ==
  << "map_markers", "analytics_daily", "analytics", "metrics_cache",
     "activity_logs", "report_analytics", "report_metrics" >>

Tables == { relatedTables[k] : k \in 1..Len(relatedTables) }

TableIndex(t) == CHOOSE k \in 1..Len(relatedTables) : relatedTables[k] = t

\* ------------------------------------------------------------ stored data
NoUrl == << >>
NoReport == [id |-> 0, image_url |-> NoUrl, video_url |-> NoUrl, user_id |-> 0]

\* path.basename(url): the last component of the stored reference
basename(url) == url[Len(url)]

\* the row of report r as created by the reporting workflow
ReportRow(r) ==
  [ id |-> r,
    image_url |-> << "uploads", << r, "image" >> >>,
    video_url |-> IF r % 2 = 1 THEN << "media", "uploads", << r, "video" >> >>
                               ELSE NoUrl,
    user_id |-> 1 + (r % 2) ]

\* rows referencing report r that table t holds when it exists
AuxSeed(t, r) == (TableIndex(t) + r) % (MaxAuxRows + 1)

EmptyResults ==
  [ tablesProcessed |-> << >>, tablesSkipped |-> << >>, errors |-> << >>,
    totalDeleted |-> 0 ]

\* ---------------------------------------------------------- request input
\* req.params.id is a string, modelled as its sequence of characters
Digits == << "0", "1", "2", "3", "4", "5", "6", "7", "8", "9" >>
IsDigit(ch) == \E k \in 1..Len(Digits) : Digits[k] = ch
DigitValue(ch) == (CHOOSE k \in 1..Len(Digits) : Digits[k] = ch) - 1

\* the decimal literal of a small id
IdLiteral(r) == << Digits[r + 1] >>

\* the longest prefix of s made of digits
RECURSIVE LeadingDigits(_)
LeadingDigits(s) ==
  IF s = << >> \/ ~IsDigit(Head(s)) THEN << >>
  ELSE << Head(s) >> \o LeadingDigits(Tail(s))

RECURSIVE DecimalValue(_, _)
DecimalValue(ds, acc) ==
  IF ds = << >> THEN acc
  ELSE DecimalValue(Tail(ds), (acc * Len(Digits)) + DigitValue(Head(ds)))

NaN == [nan |-> TRUE, value |-> 0]

\* parseInt(s): an optional sign, then the leading digits; what follows them
\* is ignored; NaN when there is no leading digit
parseInt(s) ==
  LET signed == s # << >> /\ Head(s) \in {"-", "+"}
      ds == LeadingDigits(IF signed THEN Tail(s) ELSE s)
  IN IF ds = << >> THEN NaN
     ELSE [nan |-> FALSE,
           value |-> IF signed /\ Head(s) = "-"
                       THEN 0 - DecimalValue(ds, 0) ELSE DecimalValue(ds, 0)]

\* the strings a client may put in the path: the ids of RequestIds, zero, a
\* negative number, a word, a fraction
RawIds ==
  { IdLiteral(r) : r \in RequestIds }
    \cup { << "0" >>, << "-", "1" >>, << "a", "b", "c" >>, << "1", ".", "5" >> }

\* the string is the decimal literal of a positive integer
IsPositiveIntegerLiteral(s) ==
  /\ s # << >>
  /\ \A k \in 1..Len(s) : IsDigit(s[k])
  /\ DecimalValue(s, 0) > 0

\* a value of the JSON array req.body.reportIds: an integer number, a
\* fractional number (v in tenths) or a string
JsonInt(i) == [t |-> "int", v |-> i]
\* values that are no positive integer: zero, a fraction, a string
BadElems == { JsonInt(0), [t |-> "float", v |-> 15], [t |-> "string", v |-> 1] }

Arrays(elems) ==
  { [array |-> TRUE, items |-> s] :
      s \in UNION { [1..n -> elems] : n \in 0..MaxCalls } }

\* req.body.reportIds: something that is no array, a list of ids of
\* RequestIds, or a list that mixes the first id with values that are no
\* positive integer
NotArray == [array |-> FALSE, items |-> << >>]
BulkBodies ==
  { NotArray }
    \cup Arrays({ JsonInt(i) : i \in RequestIds })
    \cup Arrays(BadElems \cup { JsonInt(1) })

\* the body is a non-empty list of positive integers
WellFormedIds(body) ==
  /\ body.array
  /\ body.items # << >>
  /\ \A k \in 1..Len(body.items) :
        body.items[k].t = "int" /\ body.items[k].v > 0

NoResponse ==
  [ status |-> 0, message |-> "none", deletedAt |-> FALSE, deletedBy |-> 0,
    debug |-> "none" ]

\* the Authorization header of a request: none, a token that does not
\* verify, the token of a user whose row is gone, of a citizen, of an official
Tokens == {"none", "invalid", "stale", "citizen", "official"}
NoBulkResult ==
  [ successful |-> << >>, failed |-> << >>,
    summary |-> [total |-> 0, successful |-> 0, failed |-> 0] ]

VARIABLES
  reports,        \* committed rows of table reports (set of ids)
  aux,            \* committed rows: aux[t][r] = rows of table t with report_id = r
  schema,         \* auxiliary tables that exist in schema public
  deletion_logs,  \* committed rows of deletion_logs, in insertion order
  files,          \* files present in the uploads directory
  poolOut,        \* connections checked out of the pool
  client,         \* the connection the running call has checked out (0: none)
  calls,          \* deleteReportCompletely calls made or due so far
  faults,         \* statements and unlinks that failed on their own so far
  sessions,       \* callers that issue deletions in this behaviour
  pc,             \* position of each caller in its request
  reportId,       \* argument reportId of the running call
  adminUserId,    \* argument adminUserId of the running call
  report,         \* reportResult.rows[0]
  tx,             \* state of the transaction block on the call's connection
  txDelAux,       \* tables whose rows for reportId this block has deleted
  txDelReport,    \* this block has deleted the reports row
  txLog,          \* deletion_logs rows this block has inserted
  deletionResults,\* the object built by deleteFromAllRelatedTables
  found,          \* reportResult.rows.length > 0: "unknown", "yes" or "no"
  deleteResult,   \* deleteResult.rows.length (-1 before the DELETE returns)
  err,            \* the error caught by the catch block ("none" if none)
  rollbackErr,    \* the ROLLBACK in the catch block threw
  outcome,        \* how the call ended: "success" or the error message
  faulted,        \* a statement of this call threw on its own
  auditFailed,    \* a statement of logDeletionAction threw in this call
  removed,        \* files this call has unlinked
  committed,      \* this call's COMMIT applied its deletes
  present,        \* the reports row existed when this call began
  overlapping,    \* the callers' current calls overlap in time
  unlinkFailed,   \* files whose access/unlink threw in this call
  entry,          \* what the caller reached: the service, a controller
                  \* function, or only the middleware of the route
  authorization,  \* the Authorization header of the request
  validInput,     \* the request input was well formed
  response,       \* the HTTP response sent (status 0: none yet)
  reportIds,      \* argument reportIds of the running bulkDeleteReports
  queue,          \* the ids the bulk loop has still to visit
  results,        \* results of the running bulkDeleteReports
  errors,         \* errors of the running bulkDeleteReports
  bulkResult,     \* the object bulkDeleteReports returned
  bulkPresent,    \* ids of the list whose row existed when the bulk call began
  tableNo         \* tables the running loop over relatedTables has been through

vars == << reports, aux, schema, deletion_logs, files, poolOut, client,
           calls, faults, sessions, pc,
           reportId, adminUserId, report, tx, txDelAux, txDelReport, txLog,
           deletionResults, found, deleteResult, err, rollbackErr,
           outcome, faulted, auditFailed, removed, committed,
           present, overlapping, unlinkFailed,
           entry, authorization, validInput, response,
           reportIds, queue, results, errors, bulkResult, bulkPresent,
           tableNo >>

dbVars == << reports, aux, deletion_logs >>
envVars == << schema, sessions >>

\* schemas explored with two concurrent callers and sequences of calls:
\* some of the tables exist, the others are skipped
ConcSchemas == { {"map_markers", "analytics_daily"} }

\* the schema the server process found when it started, in the behaviours
\* explored under ConcSchemas
StartupSchema == CHOOSE s \in ConcSchemas : TRUE

\* tables a migration creates or drops while the server runs: one that
\* exists at startup and one that does not
DriftTables == {"analytics_daily", "analytics"}

\* the schema under which the loop over the tables is explored table by
\* table: two tables that hold rows of the same report
LiveSchemas == { {"map_markers", "analytics"} }

\* calls one behaviour may make: overlapping calls and the sequences of calls
\* of a bulk request are explored under ConcSchemas; under each of the other
\* schemas a behaviour is one call
CallBudget == IF HttpCallers \subseteq sessions THEN MaxCalls ELSE 1

\* statements that may throw on their own in one behaviour; the behaviours
\* in which the schema changes are explored without such failures
FaultBudget == IF sessions = HttpCallers THEN 0 ELSE MaxFaults

\* a statement may throw on its own only while the fault budget lasts
MayFault(fault) == fault => faults < FaultBudget
CountFault(fault) == faults' = IF fault THEN faults + 1 ELSE faults
callArgs == << reportId, adminUserId, present, overlapping >>
\* the locals and the result of one deleteReportCompletely call
callLocals == << report, txDelAux, txDelReport, txLog, deletionResults, found,
                deleteResult, err, rollbackErr, outcome, faulted, auditFailed,
                removed, committed, unlinkFailed >>
httpVars == << entry, authorization, validInput, response >>
bulkVars == << reportIds, queue, results, errors, bulkResult, bulkPresent >>

\* --------------------------------------------------------------- database
InBlock(c) == tx[c] \in {"active", "aborted"}

\* a statement throws: on its own (fault), or because the block it runs in
\* (in state txs) is aborted
StmtFails(txs, fault) == fault \/ txs = "aborted"

StmtError(txs) ==
  IF txs = "aborted" THEN "current transaction is aborted" ELSE "db error"

\* c is inside deleteReportCompletely
InFlight(c) == pc[c] \notin {"idle", "done", "validate", "responded"}

\* state of a block in state txs after one of its statements threw
AfterFailure(txs) == IF txs = "active" THEN "aborted" ELSE txs

\* another open block holds the lock on the reports row r
ReportLocked(c, r) ==
  \E d \in Callers \ {c} : InBlock(d) /\ txDelReport[d] /\ reportId[d] = r

\* another open block holds locks on rows referencing r in auxiliary tables
AuxLocked(c, r) ==
  \E d \in Callers \ {c} :
    /\ InBlock(d) /\ reportId[d] = r
    /\ \E t \in txDelAux[d] : aux[t][r] > 0

\* the state after the server has started, with the callers ss at work and
\* one of the given schemas
InitWith(ss, schemas) ==
  /\ reports = ReportIds
  /\ sessions = ss
  /\ schema \in schemas
  /\ aux = [t \in Tables |->
              [r \in ReportIds |-> IF t \in schema THEN AuxSeed(t, r) ELSE 0]]
  /\ deletion_logs = << >>
  /\ files = { basename(ReportRow(r).image_url) : r \in ReportIds }
             \cup { basename(ReportRow(r).video_url) :
                      r \in { q \in ReportIds : ReportRow(q).video_url # NoUrl } }
  /\ poolOut = 0
  /\ client = [c \in Callers |-> 0]
  /\ calls = 0
  /\ faults = 0
  /\ pc = [c \in Callers |-> "idle"]
  /\ reportId = [c \in Callers |-> 0]
  /\ adminUserId = [c \in Callers |-> 0]
  /\ report = [c \in Callers |-> NoReport]
  /\ tx = [c \in Callers |-> "none"]
  /\ txDelAux = [c \in Callers |-> {}]
  /\ txDelReport = [c \in Callers |-> FALSE]
  /\ txLog = [c \in Callers |-> << >>]
  /\ deletionResults = [c \in Callers |-> EmptyResults]
  /\ found = [c \in Callers |-> "unknown"]
  /\ deleteResult = [c \in Callers |-> -1]
  /\ err = [c \in Callers |-> "none"]
  /\ rollbackErr = [c \in Callers |-> FALSE]
  /\ outcome = [c \in Callers |-> "none"]
  /\ faulted = [c \in Callers |-> FALSE]
  /\ auditFailed = [c \in Callers |-> FALSE]
  /\ removed = [c \in Callers |-> {}]
  /\ committed = [c \in Callers |-> FALSE]
  /\ present = [c \in Callers |-> FALSE]
  /\ overlapping = FALSE
  /\ unlinkFailed = [c \in Callers |-> {}]
  /\ entry = [c \in Callers |-> "none"]
  /\ authorization = [c \in Callers |-> "none"]
  /\ validInput = [c \in Callers |-> TRUE]
  /\ response = [c \in Callers |-> NoResponse]
  /\ reportIds = [c \in Callers |-> << >>]
  /\ queue = [c \in Callers |-> << >>]
  /\ results = [c \in Callers |-> << >>]
  /\ errors = [c \in Callers |-> << >>]
  /\ bulkResult = [c \in Callers |-> NoBulkResult]
  /\ bulkPresent = [c \in Callers |-> {}]
  /\ tableNo = [c \in Callers |-> 0]

Init ==
  \/ InitWith({"c1"}, SUBSET Tables)
  \/ InitWith(Callers, ConcSchemas)
  \/ InitWith(HttpCallers, ConcSchemas)

\* ------------------------------------------------- deleteReportCompletely
\* the locals of a call before its first statement, and after the caller
\* has taken its result
ClearLocals(c) ==
  /\ report' = [report EXCEPT ![c] = NoReport]
  /\ txDelAux' = [txDelAux EXCEPT ![c] = {}]
  /\ txDelReport' = [txDelReport EXCEPT ![c] = FALSE]
  /\ txLog' = [txLog EXCEPT ![c] = << >>]
  /\ deletionResults' = [deletionResults EXCEPT ![c] = EmptyResults]
  /\ found' = [found EXCEPT ![c] = "unknown"]
  /\ deleteResult' = [deleteResult EXCEPT ![c] = -1]
  /\ err' = [err EXCEPT ![c] = "none"]
  /\ rollbackErr' = [rollbackErr EXCEPT ![c] = FALSE]
  /\ faulted' = [faulted EXCEPT ![c] = FALSE]
  /\ auditFailed' = [auditFailed EXCEPT ![c] = FALSE]
  /\ removed' = [removed EXCEPT ![c] = {}]
  /\ committed' = [committed EXCEPT ![c] = FALSE]
  /\ unlinkFailed' = [unlinkFailed EXCEPT ![c] = {}]

ClearCall(c) ==
  /\ ClearLocals(c)
  /\ outcome' = [outcome EXCEPT ![c] = "none"]

\* control enters deleteReportCompletely(id, admin)
EnterCall(c, id, admin) ==
  /\ present' = [present EXCEPT ![c] = id \in reports]
  /\ overlapping' = \E d \in Callers \ {c} : InFlight(d)
  /\ pc' = [pc EXCEPT ![c] = "connect"]
  /\ reportId' = [reportId EXCEPT ![c] = id]
  /\ adminUserId' = [adminUserId EXCEPT ![c] = admin]

\* a caller invokes deleteReportCompletely(id, admin)
Call(c, id, admin) ==
  /\ c \in sessions \ HttpCallers
  /\ pc[c] = "idle"
  /\ calls < CallBudget
  /\ calls' = calls + 1
  /\ EnterCall(c, id, admin)
  /\ ClearCall(c)
  /\ entry' = [entry EXCEPT ![c] = "service"]
  /\ UNCHANGED << dbVars, envVars, bulkVars, files, poolOut, client, faults,
                  tx, authorization, validInput, response, tableNo >>

\* which of the idle connections the pool hands out does not matter to the
\* service; the model hands each caller the same one whenever it is idle
CallerOrder == << "c1", "c2" >>
Preferred(c) == CHOOSE k \in Connections : CallerOrder[k] = c

Acquire_shared(c, busy) == CHOOSE k \in Connections : \A j \in Connections : k <= j

\* the connection pool.connect() resolves with: one that no call has
\* checked out (busy: the ones checked out)
Acquire(c, busy) ==
  IF Preferred(c) \notin busy THEN Preferred(c)
  ELSE CHOOSE k \in Connections \ busy : TRUE

\* const client = await pool.connect()  (outside the try block)
Connect(c, fault) ==
  /\ pc[c] = "connect"
  /\ MayFault(fault)
  /\ CountFault(fault)
  /\ IF fault
       THEN /\ pc' = [pc EXCEPT ![c] = "done"]
            /\ outcome' = [outcome EXCEPT ![c] = "connection error"]
            /\ faulted' = [faulted EXCEPT ![c] = TRUE]
            /\ UNCHANGED << poolOut, client >>
       ELSE /\ pc' = [pc EXCEPT ![c] = "begin"]
            /\ poolOut' = poolOut + 1
            /\ client' = [client EXCEPT ![c] =
                  Acquire(c, { client[d] : d \in Callers } \ {0})]
            /\ UNCHANGED << outcome, faulted >>
  /\ UNCHANGED << dbVars, envVars, callArgs, httpVars, bulkVars, files, calls,
                  report, tx, txDelAux, txDelReport, txLog, deletionResults,
                  found, deleteResult, err, rollbackErr, auditFailed, removed,
                  committed, unlinkFailed, tableNo >>

\* await client.query('BEGIN')
Begin(c, fault) ==
  /\ pc[c] = "begin"
  /\ MayFault(fault)
  /\ CountFault(fault)
  /\ IF fault
       THEN /\ pc' = [pc EXCEPT ![c] = "rollback"]
            /\ err' = [err EXCEPT ![c] = "db error"]
            /\ faulted' = [faulted EXCEPT ![c] = TRUE]
            /\ UNCHANGED tx
       ELSE /\ pc' = [pc EXCEPT ![c] = "select"]
            /\ tx' = [tx EXCEPT ![c] = "active"]
            /\ UNCHANGED << err, faulted >>
  /\ UNCHANGED << dbVars, envVars, callArgs, httpVars, bulkVars, files,
                  poolOut, client, calls, report, txDelAux, txDelReport, txLog,
                  deletionResults, found, deleteResult, rollbackErr, outcome,
                  auditFailed, removed, committed, unlinkFailed, tableNo >>

ReportMissing_never(rows) == FALSE

\* if (reportResult.rows.length === 0)
ReportMissing(rows) == rows = 0

\* SELECT ... FROM reports WHERE id = $1, and the check of its result
SelectReport(c, fault) ==
  /\ pc[c] = "select"
  /\ MayFault(fault)
  /\ CountFault(fault)
  /\ faulted' = [faulted EXCEPT ![c] = @ \/ fault]
  /\ IF StmtFails(tx[c], fault)
       THEN /\ pc' = [pc EXCEPT ![c] = "rollback"]
            /\ err' = [err EXCEPT ![c] = StmtError(tx[c])]
            /\ tx' = [tx EXCEPT ![c] = AfterFailure(tx[c])]
            /\ UNCHANGED << report, found >>
       ELSE LET rows == IF reportId[c] \in reports THEN 1 ELSE 0
            IN /\ found' = [found EXCEPT ![c] = IF rows > 0 THEN "yes" ELSE "no"]
               /\ IF ReportMissing(rows)
                    THEN /\ pc' = [pc EXCEPT ![c] = "rollback"]
                         /\ err' = [err EXCEPT ![c] = "Report not found"]
                         /\ UNCHANGED << report, tx >>
                    ELSE /\ pc' = [pc EXCEPT ![c] = "files"]
                         /\ report' = [report EXCEPT ![c] =
                               IF rows > 0 THEN ReportRow(reportId[c]) ELSE NoReport]
                         /\ UNCHANGED << err, tx >>
  /\ UNCHANGED << dbVars, envVars, callArgs, httpVars, bulkVars, files,
                  poolOut, client, calls, txDelAux, txDelReport, txLog,
                  deletionResults, deleteResult, rollbackErr, outcome,
                  auditFailed, removed, committed, unlinkFailed, tableNo >>

\* the paths deleteAssociatedFiles collects from the report row
filesToDelete(rep) ==
  (IF rep.image_url # NoUrl THEN {basename(rep.image_url)} ELSE {})
  \cup (IF rep.video_url # NoUrl THEN {basename(rep.video_url)} ELSE {})

Unlinked_stop(todo, failing) == IF failing = {} THEN todo ELSE {}

\* the files the unlink loop goes through without a throw: each file has its
\* own try/catch, so a failure (failing) does not stop the loop
Unlinked(todo, failing) == todo \ failing

\* await this.deleteAssociatedFiles(report): every collected file is
\* unlinked unless access/unlink throws for it (failing), which is only
\* logged; reading a field of an undefined row throws a TypeError
deleteAssociatedFiles(c, failing) ==
  /\ pc[c] = "files"
  /\ failing \subseteq filesToDelete(report[c])
  /\ MayFault(failing # {})
  /\ CountFault(failing # {})
  /\ IF report[c] = NoReport
       THEN /\ pc' = [pc EXCEPT ![c] = "rollback"]
            /\ err' = [err EXCEPT ![c] = "TypeError"]
            /\ UNCHANGED << files, removed, unlinkFailed >>
       ELSE LET gone == Unlinked(filesToDelete(report[c]), failing) \cap files
            IN /\ files' = files \ gone
               /\ removed' = [removed EXCEPT ![c] = gone]
               /\ unlinkFailed' = [unlinkFailed EXCEPT ![c] = failing]
               /\ pc' = [pc EXCEPT ![c] = "cascade"]
               /\ UNCHANGED err
  /\ UNCHANGED << dbVars, envVars, callArgs, httpVars, bulkVars, poolOut,
                  client, calls, report, tx, txDelAux, txDelReport, txLog,
                  deletionResults, found, deleteResult, rollbackErr, outcome,
                  faulted, auditFailed, committed, tableNo >>

\* ----------------------------------------------------------- environment
\* a migration creates auxiliary table t and fills it from the reports that
\* exist, or drops it with its rows, between two deleteReportCompletely
\* calls: no call is between pool.connect() and the moment its caller takes
\* its result.  Explored in the behaviours of the HTTP caller alone
SchemaDrift(t) ==
  /\ sessions = HttpCallers
  /\ t \in DriftTables
  /\ \A c \in Callers : pc[c] \in {"idle", "connect", "responded"}
  /\ IF t \in schema
       THEN /\ schema' = schema \ {t}
            /\ aux' = [aux EXCEPT ![t] = [r \in ReportIds |-> 0]]
       ELSE /\ schema' = schema \cup {t}
            /\ aux' = [aux EXCEPT ![t] =
                  [r \in ReportIds |-> IF r \in reports THEN AuxSeed(t, r) ELSE 0]]
  /\ UNCHANGED << callArgs, callLocals, httpVars, bulkVars, reports,
                  deletion_logs, sessions, files, poolOut, client, calls,
                  faults, pc, tx, tableNo >>

tableExists_never(table) == FALSE

tableExists_startup(table) == table \in StartupSchema

tableExists_always(table) == TRUE

\* tableExistsResult.rows[0].exists for the probed table
tableExists(table) == table \in schema

PushError_drop(res, table, message) == res

\* deletionResults.errors.push(errorInfo) in the catch block of the loop
PushError(res, table, message) ==
  [res EXCEPT !.errors = Append(res.errors, [table |-> table, error |-> message])]

\* one pass of the body of the for-loop of deleteFromAllRelatedTables, for
\* table: the existence probe, then the DELETE, inside one try/catch.  st
\* carries deletionResults (res), the state of the transaction block (tx)
\* and the tables deleted from (del); fault: a statement of this pass throws
\* on its own
relatedTablesStep(table, st, r, fault) ==
  IF StmtFails(st.tx, fault)
    THEN \* the probe or the DELETE threw: errors.push, continue
         [st EXCEPT !.res = PushError(st.res, table, StmtError(st.tx)),
                    !.tx = AfterFailure(st.tx)]
  ELSE IF ~tableExists(table)
    THEN \* tablesSkipped.push, continue
         [st EXCEPT !.res.tablesSkipped =
              Append(st.res.tablesSkipped,
                     [table |-> table, reason |-> "Table does not exist"])]
  ELSE IF table \notin schema
    THEN \* DELETE on a relation that does not exist throws
         [st EXCEPT !.res = PushError(st.res, table, "relation does not exist"),
                    !.tx = AfterFailure(st.tx)]
  ELSE \* DELETE FROM <table> WHERE report_id = $1
       LET deletedCount == IF r \in ReportIds THEN aux[table][r] ELSE 0
       IN [st EXCEPT !.res.tablesProcessed =
                Append(st.res.tablesProcessed,
                       [table |-> table, deletedRows |-> deletedCount]),
              !.res.totalDeleted = st.res.totalDeleted + deletedCount,
              !.del = st.del \cup {table}]

\* the for-loop of deleteFromAllRelatedTables from table number k on: for
\* each table the existence probe, then the DELETE, inside one try/catch.
\* st carries deletionResults (res), the state of the transaction block
\* (tx) and the tables deleted from (del); the statements of table number
\* faultAt throw on their own (0: none do)
RECURSIVE relatedTablesLoop(_, _, _, _)
relatedTablesLoop(k, st, r, faultAt) ==
  IF k > Len(relatedTables) THEN st
  ELSE relatedTablesLoop(k + 1,
                         relatedTablesStep(relatedTables[k], st, r, k = faultAt),
                         r, faultAt)

\* the statements of the loop that may throw on their own: the DELETE on a
\* table that exists (0: none)
FaultPositions == {0} \cup { k \in 1..Len(relatedTables) : relatedTables[k] \in schema }

\* await this.deleteFromAllRelatedTables(client, reportId); its DELETEs wait
\* for the rows a concurrent block has deleted
deleteFromAllRelatedTables(c, faultAt) ==
  /\ pc[c] = "cascade"
  /\ MayFault(faultAt > 0)
  /\ CountFault(faultAt > 0)
  /\ faulted' = [faulted EXCEPT ![c] = @ \/ faultAt > 0]
  /\ tx[c] = "active" => ~AuxLocked(c, reportId[c])
  /\ LET st == relatedTablesLoop(1, [res |-> EmptyResults, tx |-> tx[c], del |-> {}],
                                 reportId[c], faultAt)
     IN /\ deletionResults' = [deletionResults EXCEPT ![c] = st.res]
        /\ tx' = [tx EXCEPT ![c] = st.tx]
        /\ txDelAux' = [txDelAux EXCEPT ![c] = st.del]
  /\ pc' = [pc EXCEPT ![c] = "delete"]
  /\ UNCHANGED << dbVars, envVars, callArgs, httpVars, bulkVars, files,
                  poolOut, client, calls, report, txDelReport, txLog, found,
                  deleteResult, err, rollbackErr, outcome, auditFailed,
                  removed, committed, unlinkFailed, tableNo >>

\* another open block holds locks on the rows of table t that reference r
RowsLocked(c, t, r) ==
  \E d \in Callers \ {c} :
    /\ InBlock(d) /\ reportId[d] = r
    /\ t \in txDelAux[d]
    /\ r \in ReportIds /\ aux[t][r] > 0

TableAt_reversed(c, k) ==
  IF c \in HttpCallers THEN relatedTables[Len(relatedTables) + 1 - k]
  ELSE relatedTables[k]

\* the table pass number k of the loop of c deals with: for (const table of
\* relatedTables), the same list in the same order in every call
TableAt(c, k) == relatedTables[k]

\* one pass of the loop of deleteFromAllRelatedTables, as a step of its own:
\* the DELETE waits while another open block holds locks on the rows it is
\* to delete; after the last table the method returns
deleteFromRelatedTable(c, fault) ==
  LET k == tableNo[c] + 1
      table == TableAt(c, k)
      st == relatedTablesStep(table,
                              [res |-> deletionResults[c], tx |-> tx[c],
                               del |-> txDelAux[c]],
                              reportId[c], fault)
  IN /\ pc[c] = "cascade"
     /\ fault => table \in schema
     /\ MayFault(fault)
     /\ CountFault(fault)
     /\ faulted' = [faulted EXCEPT ![c] = @ \/ fault]
     /\ (tx[c] = "active" /\ tableExists(table)) => ~RowsLocked(c, table, reportId[c])
     /\ deletionResults' = [deletionResults EXCEPT ![c] = st.res]
     /\ tx' = [tx EXCEPT ![c] = st.tx]
     /\ txDelAux' = [txDelAux EXCEPT ![c] = st.del]
     /\ IF k = Len(relatedTables)
          THEN /\ pc' = [pc EXCEPT ![c] = "delete"]
               /\ tableNo' = [tableNo EXCEPT ![c] = 0]
          ELSE /\ tableNo' = [tableNo EXCEPT ![c] = k]
               /\ UNCHANGED pc
     /\ UNCHANGED << dbVars, envVars, callArgs, httpVars, bulkVars, files,
                     poolOut, client, calls, report, txDelReport, txLog, found,
                     deleteResult, err, rollbackErr, outcome, auditFailed,
                     removed, committed, unlinkFailed >>

DeleteFailed_never(rows) == FALSE

DeleteFailed_negative(rows) == rows < 0

\* if (deleteResult.rows.length === 0)
DeleteFailed(rows) == rows = 0

\* DELETE FROM reports WHERE id = $1 RETURNING *, and the check of its result
DeleteReportRow(c, fault) ==
  /\ pc[c] = "delete"
  /\ MayFault(fault)
  /\ CountFault(fault)
  /\ faulted' = [faulted EXCEPT ![c] = @ \/ fault]
  /\ IF StmtFails(tx[c], fault)
       THEN /\ pc' = [pc EXCEPT ![c] = "rollback"]
            /\ err' = [err EXCEPT ![c] = StmtError(tx[c])]
            /\ tx' = [tx EXCEPT ![c] = AfterFailure(tx[c])]
            /\ UNCHANGED << txDelReport, deleteResult >>
       ELSE /\ ~ReportLocked(c, reportId[c])
            /\ LET rows == IF reportId[c] \in reports THEN 1 ELSE 0
               IN /\ deleteResult' = [deleteResult EXCEPT ![c] = rows]
                  /\ txDelReport' = [txDelReport EXCEPT ![c] = rows > 0]
                  /\ IF DeleteFailed(rows)
                       THEN /\ pc' = [pc EXCEPT ![c] = "rollback"]
                            /\ err' = [err EXCEPT ![c] = "Failed to delete report"]
                       ELSE /\ pc' = [pc EXCEPT ![c] = "log"]
                            /\ UNCHANGED err
            /\ UNCHANGED tx
  /\ UNCHANGED << dbVars, envVars, callArgs, httpVars, bulkVars, files,
                  poolOut, client, calls, report, txDelAux, txLog,
                  deletionResults, found, rollbackErr, outcome, auditFailed,
                  removed, committed, unlinkFailed, tableNo >>

\* the row logDeletionAction inserts
LogRow(c) ==
  [ report_id |-> reportId[c],
    original_user_id |-> report[c].user_id,
    deleted_by_admin_id |-> adminUserId[c],
    metadata |-> [ had_image |-> report[c].image_url # NoUrl,
                   had_video |-> report[c].video_url # NoUrl,
                   deletion_results |-> deletionResults[c] ] ]

\* await this.logDeletionAction(...): CREATE TABLE IF NOT EXISTS
\* deletion_logs, then INSERT INTO deletion_logs, inside one try/catch that
\* only logs.  Statement number faultAt throws on its own (0: none does);
\* when the first one throws the INSERT is not reached
logDeletionAction(c, faultAt) ==
  /\ pc[c] = "log"
  /\ MayFault(faultAt > 0)
  /\ CountFault(faultAt > 0)
  /\ faulted' = [faulted EXCEPT ![c] = @ \/ faultAt > 0]
  /\ IF StmtFails(tx[c], faultAt > 0)
       THEN /\ tx' = [tx EXCEPT ![c] = AfterFailure(tx[c])]
            /\ auditFailed' = [auditFailed EXCEPT ![c] = TRUE]
            /\ UNCHANGED txLog
       ELSE /\ txLog' = [txLog EXCEPT ![c] = Append(@, LogRow(c))]
            /\ UNCHANGED << tx, auditFailed >>
  /\ pc' = [pc EXCEPT ![c] = "commit"]
  /\ UNCHANGED << dbVars, envVars, callArgs, httpVars, bulkVars, files,
                  poolOut, client, calls, report, txDelAux, txDelReport,
                  deletionResults, found, deleteResult, err, rollbackErr,
                  outcome, removed, committed, unlinkFailed, tableNo >>

ReportsAfterCommit_kept(c) == reports

\* the committed tables after the block of c is applied
ReportsAfterCommit(c) ==
  IF txDelReport[c] THEN reports \ {reportId[c]} ELSE reports

AuxAfterCommit_all(c) ==
  [t \in Tables |->
     [r \in ReportIds |-> IF t \in txDelAux[c] THEN 0 ELSE aux[t][r]]]

AuxAfterCommit(c) ==
  [t \in Tables |->
     [r \in ReportIds |->
        IF t \in txDelAux[c] /\ r = reportId[c] THEN 0 ELSE aux[t][r]]]

LogsAfterCommit_replace(c) == txLog[c]

\* deletion_logs after the INSERTs of the block of c are applied: the rows
\* are added after the ones the table holds
LogsAfterCommit(c) == deletion_logs \o txLog[c]

Released_leak(out) == out

\* client.release(): the connection goes back to the pool
Released(out) == out - 1

\* finally { client.release(); }, which runs in the continuation of the
\* awaited COMMIT or ROLLBACK, and the call settles: with the error of the
\* ROLLBACK if it threw (rbErr), else with the caught error e if any
Release(c, e, rbErr) ==
  /\ poolOut' = Released(poolOut)
  /\ client' = [client EXCEPT ![c] = 0]
  /\ outcome' = [outcome EXCEPT ![c] =
        IF rbErr THEN "rollback error"
        ELSE IF e = "none" THEN "success" ELSE e]
  /\ pc' = [pc EXCEPT ![c] = "done"]

\* await client.query('COMMIT'), then return { success: true, ... }
Commit(c, fault) ==
  /\ pc[c] = "commit"
  /\ MayFault(fault)
  /\ CountFault(fault)
  /\ faulted' = [faulted EXCEPT ![c] = @ \/ fault]
  /\ IF fault
       THEN \* COMMIT threw: nothing is applied, control goes to catch
            /\ pc' = [pc EXCEPT ![c] = "rollback"]
            /\ err' = [err EXCEPT ![c] = "db error"]
            /\ tx' = [tx EXCEPT ![c] = AfterFailure(tx[c])]
            /\ UNCHANGED << dbVars, txDelAux, txDelReport, txLog, committed,
                            poolOut, client, outcome >>
       ELSE /\ Release(c, err[c], FALSE)
            /\ tx' = [tx EXCEPT ![c] = "none"]
            /\ txDelAux' = [txDelAux EXCEPT ![c] = {}]
            /\ txDelReport' = [txDelReport EXCEPT ![c] = FALSE]
            /\ txLog' = [txLog EXCEPT ![c] = << >>]
            /\ IF tx[c] = "active"
                 THEN /\ reports' = ReportsAfterCommit(c)
                      /\ aux' = AuxAfterCommit(c)
                      /\ deletion_logs' = LogsAfterCommit(c)
                      /\ committed' = [committed EXCEPT ![c] = TRUE]
                 ELSE \* aborted block: the server executes ROLLBACK
                      UNCHANGED << dbVars, committed >>
            /\ UNCHANGED err
  /\ UNCHANGED << envVars, callArgs, httpVars, bulkVars, files, calls, report,
                  deletionResults, found, deleteResult, rollbackErr,
                  auditFailed, removed, unlinkFailed, tableNo >>

\* catch (error) { await client.query('ROLLBACK'); throw error; }
Rollback(c, fault) ==
  /\ pc[c] = "rollback"
  /\ MayFault(fault)
  /\ CountFault(fault)
  /\ faulted' = [faulted EXCEPT ![c] = @ \/ fault]
  /\ tx' = [tx EXCEPT ![c] = "none"]
  /\ txDelAux' = [txDelAux EXCEPT ![c] = {}]
  /\ txDelReport' = [txDelReport EXCEPT ![c] = FALSE]
  /\ txLog' = [txLog EXCEPT ![c] = << >>]
  \* when ROLLBACK throws, its error replaces the caught one
  /\ rollbackErr' = [rollbackErr EXCEPT ![c] = fault]
  /\ Release(c, err[c], fault)
  /\ UNCHANGED << dbVars, envVars, callArgs, httpVars, bulkVars, files, calls,
                  report, deletionResults, found, deleteResult, err,
                  auditFailed, removed, committed, unlinkFailed, tableNo >>

\* ------------------------------------------------------ reports controller
\* process.env.NODE_ENV of the server process
NodeEnvs == {"development", "production"}

\* error.message.includes('permission'): no error the service throws does
includesPermission(message) == FALSE

\* the catch block of deleteReport: the response for a caught error
ErrorResponse(message, nodeEnv) ==
  [ status |-> IF message = "Report not found" THEN 404
               ELSE IF includesPermission(message) THEN 403
               ELSE 500,
    message |-> IF message = "Report not found" THEN "Report not found"
                ELSE IF includesPermission(message)
                  THEN "Insufficient permissions to delete this report"
                ELSE "Internal server error while deleting report",
    deletedAt |-> FALSE,
    deletedBy |-> 0,
    debug |-> IF /\ message # "Report not found"
                 /\ ~includesPermission(message)
                 /\ nodeEnv = "development"
                THEN message ELSE "none" ]

BadRequest(message) ==
  [ status |-> 400, message |-> message, deletedAt |-> FALSE, deletedBy |-> 0,
    debug |-> "none" ]
Ok(admin, message) ==
  [ status |-> 200, message |-> message, deletedAt |-> TRUE, deletedBy |-> admin,
    debug |-> "none" ]

\* res.status(status).json({ success: false, message }) of the middleware
Denied(status, message) ==
  [ status |-> status, message |-> message, deletedAt |-> FALSE, deletedBy |-> 0,
    debug |-> "none" ]

\* authenticateToken: NoResponse when it calls next(), else the response
\* that ends the request.  jwt.verify throws for a token that does not
\* verify, and the users query may throw (fault): both end in the catch block
authenticateToken(token, fault) ==
  IF token = "none" THEN Denied(401, "Access token required")
  ELSE IF token = "invalid" \/ fault THEN Denied(403, "Invalid or expired token")
  ELSE IF token = "stale" THEN Denied(401, "User not found")
  ELSE NoResponse

requireOfficial_open(role) == NoResponse

\* requireOfficial: if (req.user.role !== 'official') 403, else next().
\* The role is the one of the users row of the token
requireOfficial(role) ==
  IF role # "official" THEN Denied(403, "Official access required") ELSE NoResponse

\* router.delete('/:id', authenticateToken, requireOfficial, ...) and
\* router.post('/bulk-delete', authenticateToken, requireOfficial, ...):
\* the response of the first middleware that does not call next()
Middleware(token, fault) ==
  IF authenticateToken(token, fault) # NoResponse
    THEN authenticateToken(token, fault)
    ELSE requireOfficial(token)

\* the tokens whose requests reach the controller
PassingTokens == { token \in Tokens : Middleware(token, FALSE) = NoResponse }

\* the users query of authenticateToken runs for a token that verifies
QueriesUser(token) == token \notin {"none", "invalid"}

\* the variables of a bulk call, for a caller that runs none
ClearBulk(c) ==
  /\ reportIds' = [reportIds EXCEPT ![c] = << >>]
  /\ queue' = [queue EXCEPT ![c] = << >>]
  /\ results' = [results EXCEPT ![c] = << >>]
  /\ errors' = [errors EXCEPT ![c] = << >>]
  /\ bulkResult' = [bulkResult EXCEPT ![c] = NoBulkResult]
  /\ bulkPresent' = [bulkPresent EXCEPT ![c] = {}]

\* a request to DELETE /api/reports/:id or POST /api/reports/bulk-delete
\* that the middleware of the route ends: the controller is not reached
MiddlewareDenies(c, token, fault) ==
  /\ c \in sessions \cap HttpCallers
  /\ pc[c] = "idle"
  /\ fault => QueriesUser(token)
  /\ MayFault(fault)
  /\ CountFault(fault)
  /\ Middleware(token, fault) # NoResponse
  /\ authorization' = [authorization EXCEPT ![c] = token]
  /\ entry' = [entry EXCEPT ![c] = "middleware"]
  /\ response' = [response EXCEPT ![c] = Middleware(token, fault)]
  /\ pc' = [pc EXCEPT ![c] = "responded"]
  /\ UNCHANGED << dbVars, envVars, callArgs, callLocals, bulkVars, files,
                  poolOut, client, calls, tx, validInput, tableNo >>

\* DELETE /api/reports/:id with a token the middleware of the route lets
\* through: deleteReport up to the validation of the id:
\* parseInt(id); if (isNaN(reportId) || reportId <= 0) return 400
deleteReport(c, token, id, admin) ==
  LET parsed == parseInt(id)
      rejected == parsed.nan \/ parsed.value <= 0
  IN /\ c \in sessions \cap HttpCallers
     /\ pc[c] = "idle"
     /\ ~rejected => calls < CallBudget
     /\ calls' = IF rejected THEN calls ELSE calls + 1
     /\ authorization' = [authorization EXCEPT ![c] = token]
     /\ entry' = [entry EXCEPT ![c] = "deleteReport"]
     /\ validInput' = [validInput EXCEPT ![c] = IsPositiveIntegerLiteral(id)]
     /\ present' = [present EXCEPT ![c] = FALSE]
     /\ ClearCall(c)
     /\ ClearBulk(c)
     /\ IF rejected
          THEN /\ response' = [response EXCEPT ![c] = BadRequest("Invalid report ID")]
               /\ pc' = [pc EXCEPT ![c] = "responded"]
               /\ reportId' = [reportId EXCEPT ![c] = 0]
               /\ adminUserId' = [adminUserId EXCEPT ![c] = 0]
          ELSE /\ response' = [response EXCEPT ![c] = NoResponse]
               /\ pc' = [pc EXCEPT ![c] = "validate"]
               /\ reportId' = [reportId EXCEPT ![c] = parsed.value]
               /\ adminUserId' = [adminUserId EXCEPT ![c] = admin]
     /\ UNCHANGED << dbVars, envVars, files, poolOut, client, faults,
                     overlapping, tx, tableNo >>

\* await DeletionService.validateReportExists(reportId): one SELECT through
\* pool.query, outside any transaction block; 404 when it returns no row,
\* otherwise control enters deleteReportCompletely
validateReportExists(c, fault, nodeEnv) ==
  /\ pc[c] = "validate"
  /\ MayFault(fault)
  /\ CountFault(fault)
  /\ faulted' = [faulted EXCEPT ![c] = fault]
  /\ IF fault
       THEN /\ response' = [response EXCEPT ![c] = ErrorResponse("db error", nodeEnv)]
            /\ pc' = [pc EXCEPT ![c] = "responded"]
            /\ UNCHANGED callArgs
       ELSE IF reportId[c] \notin reports
         THEN /\ response' = [response EXCEPT ![c] =
                               ErrorResponse("Report not found", nodeEnv)]
              /\ pc' = [pc EXCEPT ![c] = "responded"]
              /\ UNCHANGED callArgs
         ELSE /\ EnterCall(c, reportId[c], adminUserId[c])
              /\ UNCHANGED response
  /\ UNCHANGED << dbVars, envVars, bulkVars, files, poolOut, client, calls,
                  report, tx, txDelAux, txDelReport, txLog, deletionResults,
                  found, deleteResult, err, rollbackErr, outcome, auditFailed,
                  removed, committed, unlinkFailed, entry, authorization,
                  validInput, tableNo >>

\* deleteReport after deleteReportCompletely has settled: res.json on
\* success, the catch block otherwise
deleteReportRespond(c, nodeEnv) ==
  /\ pc[c] = "done"
  /\ entry[c] = "deleteReport"
  /\ response' = [response EXCEPT ![c] =
        IF outcome[c] = "success"
          THEN Ok(adminUserId[c], "Report and all associated data deleted successfully")
          ELSE ErrorResponse(outcome[c], nodeEnv)]
  /\ pc' = [pc EXCEPT ![c] = "responded"]
  /\ ClearLocals(c)
  /\ UNCHANGED outcome
  /\ UNCHANGED << dbVars, envVars, callArgs, bulkVars, files, poolOut, client,
                  calls, faults, tx, entry, authorization, validInput,
                  tableNo >>

IsValidBulkId_lax(e) == e.t = "int"

\* Number.isInteger(id) && id > 0
IsValidBulkId(e) == e.t = "int" /\ e.v > 0

\* reportIds.filter(id => Number.isInteger(id) && id > 0)
validIds(items) == SelectSeq(items, IsValidBulkId)

\* POST /api/reports/bulk-delete with a token the middleware of the route
\* lets through: the two validations of req.body.reportIds,
\* then DeletionService.bulkDeleteReports(validIds, req.user.id) up to the
\* first deleteReportCompletely of its loop
bulkDeleteReports(c, token, body, admin) ==
  LET noList == ~body.array \/ Len(body.items) = 0
      rejected == noList \/ Len(validIds(body.items)) # Len(body.items)
      ids == [k \in 1..Len(body.items) |-> validIds(body.items)[k].v]
  IN /\ c \in sessions \cap HttpCallers
     /\ pc[c] = "idle"
     /\ ~rejected => calls + Len(ids) <= CallBudget
     /\ calls' = IF rejected THEN calls ELSE calls + Len(ids)
     /\ authorization' = [authorization EXCEPT ![c] = token]
     /\ entry' = [entry EXCEPT ![c] = "bulkDeleteReports"]
     /\ validInput' = [validInput EXCEPT ![c] = WellFormedIds(body)]
     /\ ClearCall(c)
     /\ results' = [results EXCEPT ![c] = << >>]
     /\ errors' = [errors EXCEPT ![c] = << >>]
     /\ bulkResult' = [bulkResult EXCEPT ![c] = NoBulkResult]
     /\ IF rejected
          THEN /\ response' = [response EXCEPT ![c] =
                     IF noList
                       THEN BadRequest("reportIds must be a non-empty array")
                       ELSE BadRequest("All report IDs must be positive integers")]
               /\ pc' = [pc EXCEPT ![c] = "responded"]
               /\ reportId' = [reportId EXCEPT ![c] = 0]
               /\ adminUserId' = [adminUserId EXCEPT ![c] = 0]
               /\ present' = [present EXCEPT ![c] = FALSE]
               /\ reportIds' = [reportIds EXCEPT ![c] = << >>]
               /\ queue' = [queue EXCEPT ![c] = << >>]
               /\ bulkPresent' = [bulkPresent EXCEPT ![c] = {}]
               /\ UNCHANGED overlapping
          ELSE /\ response' = [response EXCEPT ![c] = NoResponse]
               /\ reportIds' = [reportIds EXCEPT ![c] = ids]
               /\ queue' = [queue EXCEPT ![c] = Tail(ids)]
               /\ bulkPresent' = [bulkPresent EXCEPT ![c] =
                     { ids[k] : k \in 1..Len(ids) } \cap reports]
               /\ EnterCall(c, Head(ids), admin)
     /\ UNCHANGED << dbVars, envVars, files, poolOut, client, faults, tx,
                     tableNo >>

BulkError_generic(id, message) == [reportId |-> id, error |-> "Deletion failed"]

\* errors.push({ reportId, error: error.message })
BulkError(id, message) == [reportId |-> id, error |-> message]

Remaining_abort(rest, ok) == IF ok THEN rest ELSE << >>

\* the ids the for-loop still visits after an iteration: the try/catch is
\* inside the loop, so a rejected deletion (~ok) does not end it
Remaining(rest, ok) == rest

BulkReturn_distinct(ids, res, errs) ==
  [ successful |-> res, failed |-> errs,
    summary |-> [ total |-> Cardinality({ ids[k] : k \in DOMAIN ids }),
                  successful |-> Len(res), failed |-> Len(errs) ] ]

BulkReturn_successes(ids, res, errs) ==
  [ successful |-> res, failed |-> errs,
    summary |-> [total |-> Len(res), successful |-> Len(res), failed |-> Len(errs)] ]

\* the object bulkDeleteReports returns
BulkReturn(ids, res, errs) ==
  [ successful |-> res, failed |-> errs,
    summary |-> [total |-> Len(ids), successful |-> Len(res), failed |-> Len(errs)] ]

\* one iteration of the loop of bulkDeleteReports has settled: results.push
\* or errors.push; then the next deleteReportCompletely, or the return and
\* the response of the controller
bulkDeleteReportsStep(c) ==
  LET ok == outcome[c] = "success"
      newResults ==
        IF ok THEN Append(results[c],
                          [ reportId |-> reportId[c], success |-> TRUE,
                            deletionResults |-> deletionResults[c] ])
              ELSE results[c]
      newErrors == IF ok THEN errors[c]
                         ELSE Append(errors[c], BulkError(reportId[c], outcome[c]))
      rest == Remaining(queue[c], ok)
  IN /\ pc[c] = "done"
     /\ entry[c] = "bulkDeleteReports"
     /\ results' = [results EXCEPT ![c] = newResults]
     /\ errors' = [errors EXCEPT ![c] = newErrors]
     /\ IF rest = << >>
          THEN /\ bulkResult' = [bulkResult EXCEPT ![c] =
                     BulkReturn(reportIds[c], newResults, newErrors)]
               /\ response' = [response EXCEPT ![c] =
                     Ok(adminUserId[c], "Bulk deletion completed")]
               /\ pc' = [pc EXCEPT ![c] = "responded"]
               /\ queue' = [queue EXCEPT ![c] = << >>]
               /\ ClearLocals(c)
               /\ UNCHANGED << callArgs, outcome >>
          ELSE /\ EnterCall(c, Head(rest), adminUserId[c])
               /\ ClearCall(c)
               /\ queue' = [queue EXCEPT ![c] = Tail(rest)]
               /\ UNCHANGED << bulkResult, response >>
     /\ UNCHANGED << dbVars, envVars, files, poolOut, client, calls, faults,
                     tx, entry, authorization, validInput, reportIds,
                     bulkPresent, tableNo >>


Next ==
  \/ \E c \in Callers, id \in RequestIds : Call(c, id, AdminOf(c))
  \/ \E c \in Callers, fault \in BOOLEAN : Connect(c, fault)
  \/ \E c \in Callers, fault \in BOOLEAN : Begin(c, fault)
  \/ \E c \in Callers, fault \in BOOLEAN : SelectReport(c, fault)
  \/ \E c \in Callers : \E failing \in SUBSET files : deleteAssociatedFiles(c, failing)
  \/ \E c \in Callers, faultAt \in FaultPositions :
       deleteFromAllRelatedTables(c, faultAt)
  \/ \E c \in Callers, fault \in BOOLEAN : DeleteReportRow(c, fault)
  \/ \E c \in Callers, faultAt \in 0..2 : logDeletionAction(c, faultAt)
  \/ \E c \in Callers, fault \in BOOLEAN : Commit(c, fault)
  \/ \E c \in Callers, fault \in BOOLEAN : Rollback(c, fault)
  \/ \E c \in Callers, token \in Tokens, fault \in BOOLEAN :
       MiddlewareDenies(c, token, fault)
  \/ \E c \in Callers, token \in PassingTokens, id \in RawIds :
       deleteReport(c, token, id, AdminOf(c))
  \/ \E c \in Callers, fault \in BOOLEAN, nodeEnv \in NodeEnvs :
       validateReportExists(c, fault, nodeEnv)
  \/ \E c \in Callers, nodeEnv \in NodeEnvs : deleteReportRespond(c, nodeEnv)
  \/ \E c \in Callers, token \in PassingTokens, body \in BulkBodies :
       bulkDeleteReports(c, token, body, AdminOf(c))
  \/ \E c \in Callers : bulkDeleteReportsStep(c)
  \/ \E t \in Tables : SchemaDrift(t)

Spec == Init /\ [][Next]_vars

\* ------------------------------------------------ the loop, table by table
\* the requests the callers make
Requests ==
  \/ \E c \in Callers, id \in RequestIds : Call(c, id, AdminOf(c))
  \/ \E c \in Callers, token \in Tokens, fault \in BOOLEAN :
       MiddlewareDenies(c, token, fault)
  \/ \E c \in Callers, token \in PassingTokens, id \in RawIds :
       deleteReport(c, token, id, AdminOf(c))
  \/ \E c \in Callers, token \in PassingTokens, body \in BulkBodies :
       bulkDeleteReports(c, token, body, AdminOf(c))

\* the steps of the request of c once it is made: every one is the
\* continuation of an awaited statement, file operation or call
Progress(c) ==
  \/ \E fault \in BOOLEAN : Connect(c, fault)
  \/ \E fault \in BOOLEAN : Begin(c, fault)
  \/ \E fault \in BOOLEAN : SelectReport(c, fault)
  \/ \E failing \in SUBSET files : deleteAssociatedFiles(c, failing)
  \/ \E fault \in BOOLEAN : deleteFromRelatedTable(c, fault)
  \/ \E fault \in BOOLEAN : DeleteReportRow(c, fault)
  \/ \E faultAt \in 0..2 : logDeletionAction(c, faultAt)
  \/ \E fault \in BOOLEAN : Commit(c, fault)
  \/ \E fault \in BOOLEAN : Rollback(c, fault)
  \/ \E fault \in BOOLEAN, nodeEnv \in NodeEnvs : validateReportExists(c, fault, nodeEnv)
  \/ \E nodeEnv \in NodeEnvs : deleteReportRespond(c, nodeEnv)
  \/ bulkDeleteReportsStep(c)

LiveInit == InitWith(Callers, LiveSchemas)

LiveNext == Requests \/ \E c \in Callers : Progress(c)

\* the database answers every statement it is sent, a statement that waits
\* for a row lock goes on when the block holding the lock has ended, and
\* the event loop runs the continuation of every settled promise
LiveSpec ==
  /\ LiveInit
  /\ [][LiveNext]_vars
  /\ \A c \in Callers : WF_vars(Progress(c))

\* ------------------------------------------------------------- properties
LogCount(r) ==
  Cardinality({ k \in DOMAIN deletion_logs : deletion_logs[k].report_id = r })

LogCountBy(r, admin) ==
  Cardinality({ k \in DOMAIN deletion_logs :
                  /\ deletion_logs[k].report_id = r
                  /\ deletion_logs[k].deleted_by_admin_id = admin })

Fields(seq, f) == { seq[k][f] : k \in DOMAIN seq }
SkippedTables(c) == Fields(deletionResults[c].tablesSkipped, "table")
ProcessedTables(c) == Fields(deletionResults[c].tablesProcessed, "table")
ErrorTables(c) == Fields(deletionResults[c].errors, "table")

\* deleteFromAllRelatedTables has returned in the call of c
CascadeDone(c) == deletionResults[c] # EmptyResults

Ended(c) == pc[c] = "done"
Succeeded(c) == Ended(c) /\ outcome[c] = "success"

\* the current calls of c and d overlapped in time
Simultaneous(c, d) == c # d /\ overlapping

\* C1: whenever deleteReportCompletely has returned success, the reports row
\* of its reportId is gone and exactly one deletion_logs row exists for that
\* id, written with the adminUserId of the call.
C1_SuccessMeansDeletedAndAudited ==
  \A c \in Callers :
    Succeeded(c) =>
      /\ reportId[c] \notin reports
      /\ LogCount(reportId[c]) = 1
      /\ LogCountBy(reportId[c], adminUserId[c]) = 1

\* C2: two overlapping calls on the same report id that existed when each
\* began, neither hit by a database fault, end with exactly one success; the
\* other ends with 'Report not found' or 'Failed to delete report'; one audit
\* row is written for the id, by the winner.  No report id ever has two
\* audit rows.
C2_OneWinner ==
  /\ \A r \in ReportIds : LogCount(r) <= 1
  /\ \A c, d \in Callers :
       ( /\ Simultaneous(c, d) /\ Ended(c) /\ Ended(d)
         /\ reportId[c] = reportId[d]
         /\ present[c] /\ present[d]
         /\ ~faulted[c] /\ ~faulted[d] )
       => /\ Succeeded(c) # Succeeded(d)
          /\ Succeeded(c) =>
               /\ outcome[d] \in {"Report not found", "Failed to delete report"}
               /\ LogCount(reportId[c]) = 1
               /\ LogCountBy(reportId[c], adminUserId[c]) = 1
               /\ LogCountBy(reportId[c], adminUserId[d]) = 0

C2_Witness ==
  \E c, d \in Callers :
    /\ Simultaneous(c, d) /\ present[c] /\ present[d]
    /\ reportId[c] = reportId[d]
    /\ Succeeded(c)
    /\ Ended(d) /\ outcome[d] = "Failed to delete report"
    /\ LogCount(reportId[c]) = 1

\* C3: in every committed state each report is fully present (its row and
\* every auxiliary row referencing it) or fully absent (no row, no
\* referencing auxiliary row).
FullyPresent(r) ==
  /\ r \in reports
  /\ \A t \in Tables : aux[t][r] = IF t \in schema THEN AuxSeed(t, r) ELSE 0

FullyAbsent(r) ==
  /\ r \notin reports
  /\ \A t \in Tables : aux[t][r] = 0

C3_PresentOrAbsent == \A r \in ReportIds : FullyPresent(r) \/ FullyAbsent(r)

C3_Witness ==
  \E c \in Callers :
    /\ Ended(c) /\ committed[c]
    /\ FullyAbsent(reportId[c])
    /\ \E t \in schema : AuxSeed(t, reportId[c]) > 0
    /\ \E r \in ReportIds : FullyPresent(r)

\* C4: a call in which a statement of logDeletionAction threw does not
\* return success and commits nothing.
C4_AuditFailureIsFatal ==
  \A c \in Callers :
    Ended(c) /\ auditFailed[c] => outcome[c] # "success" /\ ~committed[c]

\* C5: a call whose in-transaction SELECT finds no row goes straight to
\* ROLLBACK with 'Report not found': it unlinks no file, deletes no row,
\* inserts no audit row, commits nothing, never returns success, and rejects
\* with 'Report not found' (unless the ROLLBACK statement itself throws).
C5_NotFound ==
  \A c \in Callers :
    found[c] = "no" =>
      /\ pc[c] \in {"rollback", "done"}
      /\ err[c] = "Report not found"
      /\ removed[c] = {}
      /\ txDelAux[c] = {} /\ ~txDelReport[c] /\ txLog[c] = << >>
      /\ deletionResults[c] = EmptyResults
      /\ ~committed[c]
      /\ Ended(c) => /\ outcome[c] # "success"
                     /\ ~rollbackErr[c] => outcome[c] = "Report not found"

C5_Witness ==
  \E c \in Callers :
    /\ found[c] = "no" /\ Ended(c) /\ outcome[c] = "Report not found"
    /\ reportId[c] \in ReportIds
    /\ LogCountBy(reportId[c], adminUserId[c]) = 0

\* C6: after a call has returned success, no existing auxiliary table holds
\* a row with report_id = reportId.
C6_SuccessLeavesNoAuxRows ==
  \A c \in Callers :
    Succeeded(c) => \A t \in schema : aux[t][reportId[c]] = 0

\* C7: the audit statements run only after the DELETE on reports returned
\* one row in the same transaction; when it returns no row the call goes to
\* ROLLBACK with 'Failed to delete report', writes no audit row and commits
\* nothing.
C7_AuditAfterRowDelete ==
  \A c \in Callers :
    /\ ( \/ pc[c] = "log"
         \/ txLog[c] # << >>
         \/ auditFailed[c]
         \/ committed[c] ) => deleteResult[c] = 1
    /\ txLog[c] # << >> => txDelReport[c]
    /\ deleteResult[c] = 0 =>
         /\ pc[c] \in {"rollback", "done"}
         /\ err[c] = "Failed to delete report"
         /\ txLog[c] = << >> /\ ~auditFailed[c] /\ ~committed[c]
         /\ Ended(c) => /\ outcome[c] # "success"
                        /\ ~rollbackErr[c] => outcome[c] = "Failed to delete report"

C7_Witness ==
  \E c \in Callers :
    /\ deleteResult[c] = 0 /\ Ended(c)
    /\ outcome[c] = "Failed to delete report"
    /\ LogCountBy(reportId[c], adminUserId[c]) = 0
    /\ \E d \in Callers \ {c} : Succeeded(d) /\ reportId[d] = reportId[c]

\* C8: a call unlinks asset files only after its transaction has committed.
C8_FilesOnlyAfterCommit ==
  \A c \in Callers : removed[c] # {} => committed[c]

\* C9: in a call hit by no database fault, once the loop over the tables
\* has run, every missing table is in tablesSkipped with reason 'Table does not exist' and
\* in neither tablesProcessed nor errors; and such a call, once it has found
\* the report and not lost the row to a concurrent deletion, returns success
\* with its deletion committed.
C9_MissingTablesSkipped ==
  \A c \in Callers :
    ~faulted[c] =>
      /\ \A t \in IF CascadeDone(c) THEN Tables \ schema ELSE {} :
           /\ [table |-> t, reason |-> "Table does not exist"]
                \in { deletionResults[c].tablesSkipped[k] :
                        k \in DOMAIN deletionResults[c].tablesSkipped }
           /\ t \notin ErrorTables(c)
           /\ t \notin ProcessedTables(c)
      /\ ( Ended(c) /\ found[c] = "yes" /\ deleteResult[c] # 0 ) =>
           outcome[c] = "success" /\ committed[c]

C9_Witness ==
  \E c \in Callers :
    /\ Succeeded(c) /\ committed[c] /\ ~faulted[c]
    /\ SkippedTables(c) # {} /\ SkippedTables(c) = Tables \ schema
    /\ ProcessedTables(c) # {}
    /\ deletionResults[c].errors = << >>

\* C10: a call in which the DELETE on an existing auxiliary table threw, and
\* which did not lose the reports row to a concurrent deletion, still
\* visits every remaining table, deletes the report row, writes the audit
\* row, commits and returns success.
C10_CascadeFailureTolerated ==
  \A c \in Callers :
    ( /\ Ended(c)
      /\ \E k \in DOMAIN deletionResults[c].errors :
           /\ deletionResults[c].errors[k].table \in schema
           /\ deletionResults[c].errors[k].error = "db error"
      /\ deleteResult[c] # 0 )
    => /\ outcome[c] = "success"
       /\ committed[c]
       /\ LogCountBy(reportId[c], adminUserId[c]) = 1

\* ---------------------------------------------- bulk deletion, controller
Responded(c) == pc[c] = "responded"

\* the bulk call of c has returned and the controller has answered
BulkDone(c) ==
  Responded(c) /\ entry[c] = "bulkDeleteReports" /\ response[c].status = 200

\* how often id occurs as field f of the entries of seq
Occurrences(seq, f, id) == Cardinality({ k \in DOMAIN seq : seq[k][f] = id })

IdsOf(seq) == { seq[k] : k \in DOMAIN seq }

\* C11: in bulkDeleteReports no id of the list is dropped, whatever happens
\* to the others: while the loop runs, the ids recorded, the one in progress
\* and the ones still to visit add up to the list; once it has returned,
\* every id is recorded in successful or failed as often as it occurs in the
\* list; and a report whose deletion the batch has committed stays deleted
\* when another id of the batch fails.
C11_BulkIsolation ==
  \A c \in Callers :
    entry[c] = "bulkDeleteReports" /\ reportIds[c] # << >> =>
      /\ ~Responded(c) =>
           Len(results[c]) + Len(errors[c]) + 1 + Len(queue[c]) = Len(reportIds[c])
      /\ BulkDone(c) =>
           \A id \in IdsOf(reportIds[c]) :
             Occurrences(bulkResult[c].successful, "reportId", id)
               + Occurrences(bulkResult[c].failed, "reportId", id)
               = Cardinality({ k \in DOMAIN reportIds[c] : reportIds[c][k] = id })
      /\ \A id \in IdsOf(reportIds[c]) :
           LogCountBy(id, adminUserId[c]) > 0 => id \notin reports

\* a batch whose first id failed and whose second id was then deleted
C11_Witness ==
  \E c \in Callers :
    /\ BulkDone(c)
    /\ Len(reportIds[c]) >= 2
    /\ bulkResult[c].failed # << >>
    /\ bulkResult[c].failed[1].reportId = reportIds[c][1]
    /\ bulkResult[c].successful # << >>
    /\ bulkResult[c].successful[1].reportId = reportIds[c][2]
    /\ reportIds[c][2] \notin reports
    /\ LogCountBy(reportIds[c][2], adminUserId[c]) = 1

\* the ids of the list are pairwise distinct
Distinct(seq) == Cardinality(IdsOf(seq)) = Len(seq)

\* C12: a bulk call over distinct ids, with no fault and no other caller at
\* work, returns summary.successful = number of ids that existed,
\* summary.failed = number of ids that did not; every id that did not exist
\* has the failed entry {reportId, error: 'Report not found'}; every id that
\* existed is gone from reports and has one audit row written by the caller.
C12_BulkPartialFailure ==
  \A c \in Callers :
    ( /\ BulkDone(c)
      /\ Distinct(reportIds[c])
      /\ faults = 0
      /\ \A d \in Callers \ {c} : pc[d] = "idle" ) =>
      LET ids == IdsOf(reportIds[c])
          r == bulkResult[c]
      IN /\ r.summary.total = Len(reportIds[c])
         /\ r.summary.successful = Cardinality(bulkPresent[c])
         /\ r.summary.failed = Cardinality(ids \ bulkPresent[c])
         /\ \A id \in ids \ bulkPresent[c] :
              \E k \in DOMAIN r.failed :
                r.failed[k] = [reportId |-> id, error |-> "Report not found"]
         /\ \A id \in bulkPresent[c] :
              /\ id \notin reports
              /\ LogCount(id) = 1
              /\ LogCountBy(id, adminUserId[c]) = 1
              /\ \E k \in DOMAIN r.successful : r.successful[k].reportId = id

\* a batch of an existing and a missing id has returned
C12_Witness ==
  \E c \in Callers :
    /\ BulkDone(c)
    /\ Distinct(reportIds[c])
    /\ faults = 0
    /\ \A d \in Callers \ {c} : pc[d] = "idle"
    /\ bulkPresent[c] # {}
    /\ IdsOf(reportIds[c]) \ bulkPresent[c] # {}
    /\ bulkResult[c].summary.successful >= 1
    /\ bulkResult[c].summary.failed >= 1

\* C13: whatever the individual deletions did, the object bulkDeleteReports
\* returns has successful.length + failed.length = summary.total = the length
\* of the list, summary.successful = successful.length and summary.failed =
\* failed.length.
C13_BulkSummary ==
  \A c \in Callers :
    BulkDone(c) =>
      LET r == bulkResult[c]
      IN /\ Len(r.successful) + Len(r.failed) = r.summary.total
         /\ r.summary.total = Len(reportIds[c])
         /\ r.summary.successful = Len(r.successful)
         /\ r.summary.failed = Len(r.failed)

\* a batch has returned with a success and with a failure that is no
\* 'Report not found'
C13_Witness ==
  \E c \in Callers :
    /\ BulkDone(c)
    /\ bulkResult[c].successful # << >>
    /\ \E k \in DOMAIN bulkResult[c].failed :
         bulkResult[c].failed[k].error # "Report not found"

\* C14: a DELETE /api/reports/:id whose id is no positive integer is answered
\* with 400 at once: the request never gets to validateReportExists or to
\* deleteReportCompletely, so it reads and writes nothing.
C14_InvalidIdRejected ==
  \A c \in Callers :
    entry[c] = "deleteReport" /\ ~validInput[c] =>
      Responded(c) /\ response[c].status = 400

\* C15: a bulk request whose reportIds is no array, is empty or holds a
\* value that is no positive integer is answered with 400 before any
\* deletion: the service is not called, not even for the valid ids.
C15_BulkValidatedFirst ==
  \A c \in Callers :
    entry[c] = "bulkDeleteReports" /\ ~validInput[c] =>
      /\ Responded(c)
      /\ response[c].status = 400
      /\ reportIds[c] = << >>
      /\ bulkResult[c] = NoBulkResult
      /\ \A r \in ReportIds : LogCountBy(r, AdminOf(c)) = 0

\* a malformed bulk request was refused and every report is still there
C15_Witness ==
  \E c \in Callers :
    /\ entry[c] = "bulkDeleteReports"
    /\ ~validInput[c]
    /\ Responded(c)
    /\ response[c].status = 400
    /\ reports = ReportIds
    /\ deletion_logs = << >>

\* the positions at which a call holds a pooled connection
Holding(c) ==
  pc[c] \in {"begin", "select", "files", "cascade", "delete", "log", "commit",
             "rollback"}

\* C16: the connections checked out of the pool are exactly those of the
\* calls between pool.connect() and client.release(): every call gives its
\* connection back once, on every exit path (also when ROLLBACK throws), and
\* when no call is running none is checked out.
C16_ConnectionReleased ==
  /\ poolOut = Cardinality({ c \in Callers : Holding(c) })
  /\ (\A c \in Callers : ~InFlight(c)) => poolOut = 0

\* a call whose ROLLBACK threw has ended and the pool is whole
C16_Witness ==
  \E c \in Callers :
    /\ Ended(c)
    /\ rollbackErr[c]
    /\ outcome[c] = "rollback error"
    /\ poolOut = 0

\* the failures the cascade loop is meant to absorb
CascadeErrors(c) == deletionResults[c].errors # << >>

\* C17: a call in which a statement between BEGIN and COMMIT threw on its
\* own (the per-table failures of the cascade apart) does not succeed and
\* commits nothing; the controller answers such a failure with 500 and no
\* error detail.
C17_FailureRollsBackAndIs500 ==
  \A c \in Callers :
    /\ ( Ended(c) /\ faulted[c] /\ ~CascadeErrors(c)
         /\ outcome[c] # "connection error" ) =>
         /\ outcome[c] # "success"
         /\ ~committed[c]
    /\ ( /\ Responded(c)
         /\ entry[c] = "deleteReport"
         /\ outcome[c] \notin {"none", "success", "Report not found",
                               "Failed to delete report", "connection error"} ) =>
         /\ response[c].status = 500
         /\ response[c].debug = "none"

\* C18: the answer to DELETE /api/reports/:id with a well-formed id is 200
\* with deletedAt and deletedBy after a success, 404 after 'Report not
\* found', 409 after the reports row delete affected no row, and 500 after
\* any other failure; 400 is the answer to malformed ids only.
C18_StatusMapping ==
  \A c \in Callers :
    Responded(c) /\ entry[c] = "deleteReport" /\ validInput[c] =>
      LET res == response[c]
      IN /\ res.status # 400
         /\ outcome[c] = "success" =>
              res.status = 200 /\ res.deletedAt /\ res.deletedBy = AdminOf(c)
         /\ outcome[c] = "Report not found" => res.status = 404
         /\ outcome[c] = "Failed to delete report" => res.status = 409
         /\ outcome[c] = "none" => res.status \in {404, 500}
         /\ outcome[c] \notin {"success", "Report not found",
                               "Failed to delete report", "none"} =>
              res.status = 500

\* the files deleteAssociatedFiles had to remove in the call of c
Assets(c) == filesToDelete(report[c])

\* C19: when access/unlink failed for a file of the report, the call goes on:
\* the other file of the report is removed all the same, and a call that
\* found the report, was hit by no database fault and did not lose the row
\* to a concurrent deletion still succeeds with its deletion committed.
C19_FileFailureOnlyLogged ==
  \A c \in Callers :
    unlinkFailed[c] # {} =>
      /\ \A f \in Assets(c) \ unlinkFailed[c] : f \notin files
      /\ pc[c] = "rollback" => err[c] # "none" /\ (faulted[c] \/ deleteResult[c] = 0)
      /\ ( Ended(c) /\ ~faulted[c] /\ deleteResult[c] # 0 ) =>
           /\ Succeeded(c)
           /\ committed[c]
           /\ reportId[c] \notin reports

\* the image could not be removed, the video was, and the call succeeded
C19_Witness ==
  \E c \in Callers :
    /\ Succeeded(c)
    /\ committed[c]
    /\ unlinkFailed[c] = { basename(report[c].image_url) }
    /\ report[c].video_url # NoUrl
    /\ basename(report[c].video_url) \in removed[c]
    /\ reportId[c] \notin reports

\* C20: after a successful call the files of the report that could be
\* removed are gone from the uploads directory, the reports row is absent
\* and one deletion_logs row exists for the id.
C20_AssetsRemoved ==
  \A c \in Callers :
    Succeeded(c) =>
      /\ \A f \in Assets(c) \ unlinkFailed[c] : f \notin files
      /\ reportId[c] \notin reports
      /\ LogCount(reportId[c]) = 1

\* ------------------------------------------- audit trail, frame, liveness
\* seq is an initial segment of longer
IsPrefix(seq, longer) ==
  /\ Len(seq) <= Len(longer)
  /\ \A k \in DOMAIN seq : longer[k] = seq[k]

\* C21: deletion_logs is append-only.  A logDeletionAction call none of
\* whose statements throws inserts exactly one row in the block of its call,
\* one whose statement throws inserts none; the rows a block has inserted
\* are never changed by a later statement of the block; and every step of
\* the service leaves the committed rows of deletion_logs in place, in
\* their order and with their content, adding rows only after them.
C21_AuditAppendOnly ==
  [][ /\ IsPrefix(deletion_logs, deletion_logs')
      /\ \A c \in Callers :
           /\ pc[c] = "log" /\ pc'[c] # "log" =>
                /\ Len(txLog'[c]) = Len(txLog[c]) + (IF auditFailed'[c] THEN 0 ELSE 1)
                /\ IsPrefix(txLog[c], txLog'[c])
           /\ pc[c] = "commit" /\ committed'[c] /\ ~committed[c] =>
                deletion_logs' = deletion_logs \o txLog[c]
           /\ pc[c] \notin {"log", "commit", "rollback"} /\ pc'[c] # "connect" =>
                txLog'[c] = txLog[c] ]_vars

\* two deletions have committed, each with its audit row, the second row
\* after the first
C21_Witness ==
  /\ Len(deletion_logs) >= 2
  /\ deletion_logs[1].report_id # deletion_logs[2].report_id
  /\ deletion_logs[1].report_id \notin reports
  /\ deletion_logs[2].report_id \notin reports

\* the callers whose running call has connection k checked out
Users(k) == { c \in Callers : client[c] = k }

\* the ids of the list the bulk call of c has dealt with so far
Settled(c) == Len(results[c]) + Len(errors[c])

\* C22: every deleteReportCompletely call works on a connection of its own:
\* a call holds a connection exactly between pool.connect() and
\* client.release(), no connection is held by two calls at once, and the
\* block on it deletes for the one report id of the call.  A bulk call goes
\* through its list one id at a time, in the order of the list: the id in
\* progress is the one after the ids already settled, so the bulk call never
\* holds more than one connection.
C22_OwnConnection ==
  /\ \A k \in Connections : Cardinality(Users(k)) <= 1
  /\ poolOut = Cardinality({ k \in Connections : Users(k) # {} })
  /\ \A c \in Callers :
       /\ Holding(c) <=> client[c] \in Connections
       /\ ~Holding(c) => client[c] = 0 /\ tx[c] = "none"
       /\ InBlock(c) => Holding(c) /\ reportId[c] \in RequestIds
       /\ ( entry[c] = "bulkDeleteReports" /\ reportIds[c] # << >>
            /\ ~Responded(c) ) =>
            /\ Settled(c) < Len(reportIds[c])
            /\ reportId[c] = reportIds[c][Settled(c) + 1]
            /\ queue[c] = SubSeq(reportIds[c], Settled(c) + 2, Len(reportIds[c]))

\* two calls run at once, each in a block on its own connection; one of
\* them is a deletion of a bulk call
C22_Witness ==
  \E c, d \in Callers :
    /\ c # d
    /\ InBlock(c) /\ InBlock(d)
    /\ client[c] \in Connections /\ client[d] \in Connections
    /\ client[c] # client[d]
    /\ entry[c] = "bulkDeleteReports"
    /\ reportId[c] = reportIds[c][Settled(c) + 1]

\* the files of all the reports
AllAssets == UNION { filesToDelete(ReportRow(r)) : r \in ReportIds }

\* nothing has been deleted
Untouched ==
  /\ reports = ReportIds
  /\ \A r \in ReportIds : FullyPresent(r)
  /\ deletion_logs = << >>
  /\ files = AllAssets

\* C23: a request to one of the two deletion routes that carries no token
\* is answered 401, and one whose token is that of a user who is no official
\* is answered 403 'Official access required' (403 'Invalid or expired
\* token' when the users query of authenticateToken throws).  Such a request
\* ends in the middleware: the controller and the deletion service are
\* reached by officials only, the request starts no deletion and writes no
\* audit row, and when nobody else is deleting, every report, auxiliary row
\* and file is still there.
C23_OfficialsOnly ==
  \A c \in HttpCallers :
    /\ entry[c] \in {"deleteReport", "bulkDeleteReports"} =>
         authorization[c] = "official"
    /\ ( pc[c] # "idle" /\ authorization[c] # "official" ) =>
         /\ entry[c] = "middleware"
         /\ Responded(c)
         /\ authorization[c] = "none" =>
              response[c] = Denied(401, "Access token required")
         /\ authorization[c] = "citizen" =>
              /\ response[c].status = 403
              /\ faults = 0 => response[c].message = "Official access required"
         /\ response[c].status \in {401, 403}
         /\ reportId[c] = 0 /\ reportIds[c] = << >>
         /\ outcome[c] = "none" /\ client[c] = 0 /\ tx[c] = "none"
         /\ \A r \in ReportIds : LogCountBy(r, AdminOf(c)) = 0
         /\ (\A d \in Callers \ {c} : pc[d] = "idle") => Untouched /\ calls = 0

\* a citizen's request was refused and everything is still there
C23_Witness ==
  \E c \in HttpCallers :
    /\ authorization[c] = "citizen"
    /\ Responded(c)
    /\ response[c] = Denied(403, "Official access required")
    /\ Untouched

\* the tables in the tablesProcessed, and in the tablesSkipped, of a result
ProcessedIn(res) == Fields(res.tablesProcessed, "table")
SkippedIn(res) == Fields(res.tablesSkipped, "table")

\* C24: the existence of every table of the list is looked up when the loop
\* of a call reaches it, never taken from an earlier call: in every call
\* whose cascade statements do not throw, tablesProcessed holds exactly the
\* tables that exist when the loop runs and tablesSkipped exactly the ones
\* that do not, also when tables were created or dropped since the server
\* started or since the previous call.
C24_ProbeEveryCall ==
  [][ \A c \in Callers :
        ( /\ pc[c] = "cascade" /\ pc'[c] = "delete"
          /\ tx[c] = "active" /\ tx'[c] = "active" ) =>
          /\ ProcessedIn(deletionResults'[c]) = schema
          /\ SkippedIn(deletionResults'[c]) = Tables \ schema
          /\ deletionResults'[c].errors = << >> ]_vars

\* the second deletion of a bulk call ran after a table was dropped and
\* another one created: it skipped a table the first deletion had processed
\* and processed one the first had skipped
C24_Witness ==
  \E c \in Callers :
    /\ entry[c] = "bulkDeleteReports"
    /\ Len(results[c]) = 1
    /\ Ended(c) /\ outcome[c] = "success"
    /\ ProcessedIn(results[c][1].deletionResults) = StartupSchema
    /\ ProcessedIn(deletionResults[c]) = schema
    /\ ProcessedIn(results[c][1].deletionResults) \ ProcessedIn(deletionResults[c]) # {}
    /\ ProcessedIn(deletionResults[c]) \ ProcessedIn(results[c][1].deletionResults) # {}

\* C25: in every committed state a deletion_logs row for a report id exists
\* only if the reports row of that id is gone: the INSERT of the audit row
\* and the DELETE of the reports row are applied by the same COMMIT or
\* discarded together (no report id is created again after its deletion).
C25_AuditImpliesAbsent ==
  \A k \in DOMAIN deletion_logs :
    /\ deletion_logs[k].report_id \in ReportIds
    /\ deletion_logs[k].report_id \notin reports

\* the audit row of a deleted report is committed while another report,
\* which has no audit row, is still there
C25_Witness ==
  \E r, q \in ReportIds :
    /\ LogCount(r) = 1 /\ r \notin reports
    /\ LogCount(q) = 0 /\ q \in reports

\* the call of c has issued COMMIT: control gets to COMMIT exactly when the
\* DELETE on reports returned its row
CommitIssued(c) == deleteResult[c] = 1

\* the call of c has issued ROLLBACK: the catch block ran
RollbackIssued(c) == err[c] # "none"

\* C26: a call that obtained a connection ends its transaction exactly once,
\* with COMMIT on the success path or with ROLLBACK on every error path,
\* never with both and never with neither; and it returns success only if
\* it issued COMMIT and the committed state holds its deletion.
C26_TransactionEndedOnce ==
  \A c \in Callers :
    ( Ended(c) /\ outcome[c] # "connection error" ) =>
      /\ CommitIssued(c) # RollbackIssued(c)
      /\ outcome[c] # "success" => RollbackIssued(c)
      /\ outcome[c] = "success" =>
           /\ CommitIssued(c)
           /\ committed[c]
           /\ reportId[c] \notin reports

\* C27: a bulk call whose list holds the same existing id more than once,
\* with no fault and no other caller at work: the first occurrence
\* succeeds, every later one is in failed with 'Report not found', the
\* report is gone, one audit row is written for it, and summary.total counts
\* every occurrence.
C27_BulkDuplicateIds ==
  \A c \in Callers :
    ( /\ BulkDone(c)
      /\ faults = 0
      /\ \A d \in Callers \ {c} : pc[d] = "idle" ) =>
      \A id \in bulkPresent[c] :
        LET r == bulkResult[c]
            n == Cardinality({ k \in DOMAIN reportIds[c] : reportIds[c][k] = id })
            first == CHOOSE k \in DOMAIN reportIds[c] :
                       /\ reportIds[c][k] = id
                       /\ \A j \in 1..(k - 1) : reportIds[c][j] # id
        IN /\ Occurrences(r.successful, "reportId", id) = 1
           /\ Occurrences(r.failed, "reportId", id) = n - 1
           /\ \A k \in DOMAIN r.failed :
                r.failed[k].reportId = id => r.failed[k].error = "Report not found"
           \* the success is the first occurrence: the successes before it
           \* are those of the existing ids that precede it in the list
           /\ \A k \in DOMAIN r.successful :
                r.successful[k].reportId = id =>
                  k - 1 = Cardinality({ reportIds[c][j] : j \in 1..(first - 1) }
                                        \cap bulkPresent[c])
           /\ id \notin reports
           /\ LogCount(id) = 1
           /\ LogCountBy(id, adminUserId[c]) = 1
           /\ r.summary.total = Len(reportIds[c])
           /\ r.summary.successful + r.summary.failed = Len(reportIds[c])

\* a bulk call over twice the same existing id has returned
C27_Witness ==
  \E c \in Callers :
    /\ BulkDone(c)
    /\ faults = 0
    /\ Len(reportIds[c]) >= 2
    /\ reportIds[c][1] = reportIds[c][2]
    /\ reportIds[c][1] \in bulkPresent[c]
    /\ bulkResult[c].successful[1].reportId = reportIds[c][1]
    /\ bulkResult[c].failed # << >>
    /\ bulkResult[c].failed[1] = [reportId |-> reportIds[c][1], error |-> "Report not found"]
    /\ bulkResult[c].summary.total = Len(reportIds[c])
    /\ LogCount(reportIds[c][1]) = 1

\* the data of report q differs between this state and the next one
Touched(q) ==
  \/ q \in reports /\ q \notin reports'
  \/ q \notin reports /\ q \in reports'
  \/ \E t \in Tables : aux'[t][q] # aux[t][q]
  \/ \E f \in filesToDelete(ReportRow(q)) : (f \in files) # (f \in files')

\* c takes a step of a deleteReportCompletely call
Steps(c) == InFlight(c) /\ pc'[c] # pc[c]

RECURSIVE SumDeletedRows(_)
SumDeletedRows(seq) ==
  IF seq = << >> THEN 0 ELSE Head(seq).deletedRows + SumDeletedRows(Tail(seq))

\* the entries of seq name tables in the order of relatedTables, none twice
InListOrder(seq) ==
  \A i, j \in DOMAIN seq :
    i < j => TableIndex(seq[i].table) < TableIndex(seq[j].table)

\* C30: the object deleteFromAllRelatedTables returns splits the seven
\* tables of the list: each table is in exactly one of tablesProcessed,
\* tablesSkipped and errors (a table whose existence probe or DELETE threw is
\* in errors), each of the three in the order of the list, and totalDeleted
\* is the sum of deletedRows over tablesProcessed.
C30_ResultsPartition ==
  \A c \in Callers :
    CascadeDone(c) =>
      LET res == deletionResults[c]
      IN /\ ProcessedTables(c) \cup SkippedTables(c) \cup ErrorTables(c) = Tables
         /\ ProcessedTables(c) \cap SkippedTables(c) = {}
         /\ ProcessedTables(c) \cap ErrorTables(c) = {}
         /\ SkippedTables(c) \cap ErrorTables(c) = {}
         /\ Len(res.tablesProcessed) + Len(res.tablesSkipped) + Len(res.errors)
              = Len(relatedTables)
         /\ InListOrder(res.tablesProcessed)
         /\ InListOrder(res.tablesSkipped)
         /\ InListOrder(res.errors)
         /\ res.totalDeleted = SumDeletedRows(res.tablesProcessed)

\* a call has skipped a table, deleted rows from another and recorded the
\* failure of a third
C30_Witness ==
  \E c \in Callers :
    /\ CascadeDone(c)
    /\ deletionResults[c].tablesSkipped # << >>
    /\ deletionResults[c].tablesProcessed # << >>
    /\ deletionResults[c].errors # << >>
    /\ deletionResults[c].totalDeleted > 0
    /\ \E k \in DOMAIN deletionResults[c].errors :
         deletionResults[c].errors[k].error = "current transaction is aborted"

\* the ways a deleteReportCompletely call ends: with its result, or with
\* the error it throws
TerminalOutcomes ==
  { "success", "Report not found", "Failed to delete report", "db error",
    "current transaction is aborted", "TypeError", "rollback error",
    "connection error" }

\* the statement c is about to issue waits for a lock the open block of d
\* holds
WaitsFor(c, d) ==
  /\ c # d
  /\ InBlock(d) /\ tx[c] = "active"
  /\ reportId[d] = reportId[c]
  /\ reportId[c] \in ReportIds
  /\ \/ /\ pc[c] = "cascade"
        /\ TableAt(c, tableNo[c] + 1) \in txDelAux[d] \cap schema
        /\ aux[TableAt(c, tableNo[c] + 1)][reportId[c]] > 0
     \/ pc[c] = "delete" /\ txDelReport[d]

\* two calls wait for each other
Deadlocked == \E c, d \in Callers : WaitsFor(c, d) /\ WaitsFor(d, c)

\* C29: with the loop over the tables taken table by table and every
\* awaited statement eventually answered, every deleteReportCompletely call
\* ends, in exactly one of its terminal outcomes, with its block closed and
\* its connection released; a bulk call ends after one attempt for every id
\* of its list; and overlapping calls, on the same or on different ids,
\* never wait for each other, since every call takes its row locks in the
\* order of the list of tables and then on the reports row.
C29_Terminates ==
  /\ [](\A c \in Callers :
          Ended(c) => outcome[c] \in TerminalOutcomes /\ tx[c] = "none" /\ client[c] = 0)
  /\ [](\A c \in Callers : ~Ended(c) /\ pc[c] # "responded" => outcome[c] = "none")
  /\ []~Deadlocked
  /\ \A c \in Callers : InFlight(c) ~> Ended(c)
  /\ \A c \in Callers :
       (entry[c] = "bulkDeleteReports" /\ ~Responded(c))
         ~> (BulkDone(c) /\ Len(bulkResult[c].successful) + Len(bulkResult[c].failed)
                              = Len(reportIds[c]))

\* two overlapping calls on the same report, which has rows in two
\* auxiliary tables, have both ended: one was a deletion of a bulk call and
\* succeeded, the other one had to wait and found the row gone
C29_Witness ==
  \E c, d \in Callers :
    /\ c # d
    /\ overlapping
    /\ entry[c] = "bulkDeleteReports" /\ BulkDone(c)
    /\ bulkResult[c].successful # << >>
    /\ bulkResult[c].successful[1].reportId = reportId[d]
    /\ Ended(d)
    /\ outcome[d] = "Failed to delete report"
    /\ Cardinality({ t \in schema : AuxSeed(t, reportId[d]) > 0 }) >= 2
====
